---- MODULE Spec2Model ----
(***************************************************************************)
(* State-machine model of the WhatsApp ingestion service                   *)
(* (services/whatsapp.js, services/database.js): the inbound event         *)
(* handlers, the pending buffer and its batch cycle, the messages table,   *)
(* the monitored-group registry, the reconnect scheduler and the safety    *)
(* throttle.                                                               *)
(***************************************************************************)
EXTENDS Integers, Sequences, FiniteSets, Bags, TLC

\* ------------------------------------------------------------------ bounds
\* Raw events that reach message.getChat().
MaxEvents == 2
\* add/remove commands that change the registry.
MaxRegistryOps == 1
\* Faults injected by the environment (a database call that throws, the
\* database being toggled not-ready, a file write that fails).
MaxFaults == 1

\* Connection events emitted by the clients (qr, ready, authenticated,
\* auth_failure, disconnected, error).
MaxConnEvents == 3
\* Entries of the side-store file read by loadMonitoredGroups.
MaxFileLen == 3
\* log entries a component hands to the status-group transport in one behaviour
MaxEntries == 3
\* Largest configured whatsapp.sessionManagement.maxReconnectAttempts.
MaxReconnectCfg == 2
\* safetyCheck() calls.
MaxCalls == 3
\* Advances of the clock.
MaxTicks == 4
\* Largest configured whatsapp.safety.maxActivityPerHour.
MaxCeilingCfg == 2

\* ------------------------------------------------------- program constants
\* const concurrencyLimit = 10
concurrencyLimit == 10
\* this.reconnectInterval (ms)
reconnectInterval == 30000
\* this.minDelayBetweenActions (ms)
minDelayBetweenActions == 2000
\* this.randomDelayMax (ms)
randomDelayMax == 3000
\* await this.delay(30000) once the hourly ceiling is reached
cooldownDelay == 30000
\* if (timeSinceLastActivity > 3600000)
oneHour == 3600000

\* --------------------------------------------------------------- alphabets
MsgIds == {"m1", "m2"}
Bodies == {"hi", "yo"}
\* message.body of an event that has none.
NoBody == "undefined"
\* The id of the status notice.
StatusId == "s1"
GroupNames == {"ClassGroup", "Other"}
\* Chats known to the transport: name |-> isGroup.
ChatNames == GroupNames \cup {"Alice"}
ChatIsGroup(name) == name \in GroupNames

\* A raw event as the transport hands it to the 'message' / 'message_create'
\* callbacks.  A status notice is dropped whatever its other fields are, so
\* one of them stands for all.
RawEvents ==
    [id : MsgIds, chat : ChatNames, isStatus : {FALSE}, fromMe : BOOLEAN,
     body : Bodies, missing : {"none"}]
    \cup {[id |-> StatusId, chat |-> "ClassGroup", isStatus |-> TRUE,
           fromMe |-> FALSE, body |-> "hi", missing |-> "none"]}

\* Malformed events: one of message.from, message.body, message._data is
\* undefined.
MalformedEvents ==
    [id : {"m1"}, chat : {"ClassGroup"}, isStatus : {FALSE}, fromMe : BOOLEAN,
     body : {"hi"}, missing : {"from", "body", "data"}]

VARIABLES
    config,            \* the configuration read through config.get(...)
    now,               \* Date.now()
    \* ---- monitored-group registry
    monitoredGroups,   \* this.monitoredGroups, a Set in insertion order
    groupsFile,        \* contents of ./data/monitored-groups.json
    fileState,         \* whether that file can be read and parsed as an array
    nRegistryOps,      \* registry mutations so far
    lastCall,          \* history: the latest add/remove call and what it returned
    \* ---- ingestion and batch processing
    pendingMessages,   \* this.pendingMessages
    handlers,          \* handleIncomingMessage calls suspended in getChat()
    tasks,             \* processMessage calls suspended in a database call
    runs,              \* processBatchMessages calls in progress
    batchJobs,         \* started cron jobs created by startBatchProcessing
    batchJob,          \* this.batchJob: "null", or the state of the job it holds
    stopCall,          \* the stop() call of shutdown: where it is, the client it destroys
    nEvents,           \* handleIncomingMessage calls that reached getChat()
    nRuns,             \* batch runs that spliced the buffer so far
    accepted,          \* history: ids that passed the monitoring filter
    lost,              \* history: ids whose processMessage was skipped or threw
    lateAdmitted,      \* history: ids enqueued though unmonitored on arrival
    lastHandled,       \* history: chat, call number and outcome of the latest event handled
    \* ---- message store
    store,             \* rows of the messages table
    nextRowId,         \* the table's AUTOINCREMENT counter
    dbReady,           \* databaseService.isReady()
    nFaults,           \* faults injected so far
    \* ---- connection and reconnection
    client,            \* this.client: id of the current Client object, 0 = null
    liveClients,       \* Client objects created and not destroyed
    nClients,          \* Client objects created so far
    isConnected,       \* this.isConnected
    isAuthenticated,   \* this.isAuthenticated
    reconnectAttempts, \* this.reconnectAttempts
    timers,            \* pending setTimeout callbacks of scheduleReconnect
    reconnects,        \* reconnect() calls in progress
    readyWaits,        \* 'ready' handlers suspended in their 10 s wait
    lastStatus,        \* the latest text handed to sendStatusUpdate
    nConnEvents,       \* connection events of the client handled so far
    nDisconnects,      \* 'disconnected' events so far
    nReadies,          \* 'ready' events so far
    reconnectsSinceReady,  \* history: reconnect() calls since the last 'ready'
    disconnectsSinceReady, \* history: 'disconnected' events since the last 'ready'
    succeededSinceReady,   \* history: reconnect() calls that returned since then
    delays,            \* history: delays scheduled since the counter was reset
    exhaustedReported, \* history: 'manual intervention' sent since the last 'ready'
    \* ---- safety throttle
    lastActivityTime,  \* this.lastActivityTime
    activityCount,     \* this.activityCount
    calls,             \* safetyCheck() calls suspended in this.delay()
    nCalls,            \* safetyCheck() calls entered so far
    nTicks,            \* clock advances so far
    nCompleted,        \* history: safetyCheck() calls that returned
    lastResetTime,     \* history: when activityCount was last set to 0
    \* ---- log entries routed to the Telegram status group
    messageQueue,      \* TelegramTransport.messageQueue
    isProcessing,      \* TelegramTransport.isProcessing
    batch,             \* processQueue: the entries of `batch` not yet sent
    queuePc,           \* processQueue: "idle", "sending" or "batchWait"
    nEntries,          \* log entries queued by the components so far
    attempted,         \* history: entries handed to bot.sendMessage, in order
    delivered          \* history: entries bot.sendMessage delivered

registryVars == <<monitoredGroups, groupsFile, fileState, nRegistryOps,
                  lastCall>>
bufferVars == <<pendingMessages, handlers, tasks, runs, nEvents, nRuns,
                accepted, lost, lateAdmitted, lastHandled>>
dbVars == <<store, nextRowId, dbReady>>
lifeVars == <<batchJobs, batchJob, stopCall>>

connVars == <<client, liveClients, nClients, isConnected, isAuthenticated,
              reconnectAttempts, timers, reconnects, readyWaits, lastStatus,
              nConnEvents, nDisconnects, nReadies, reconnectsSinceReady,
              disconnectsSinceReady, succeededSinceReady, delays,
              exhaustedReported>>
throttleVars == <<lastActivityTime, activityCount, calls, nCalls, nTicks,
                  nCompleted, lastResetTime>>
ingestVars == <<registryVars, bufferVars, dbVars, nFaults>>
notifyVars == <<messageQueue, isProcessing, batch, queuePc, nEntries,
                attempted, delivered>>

vars == <<config, now, registryVars, bufferVars, lifeVars, dbVars, nFaults,
          connVars, throttleVars, notifyVars>>

\* ----------------------------------------------------------------- helpers
Min(a, b) == IF a <= b THEN a ELSE b

Range(s) == {s[i] : i \in 1..Len(s)}

RemoveFromSeq(s, x) == SelectSeq(s, LAMBDA y : y # x)

\* ------------------------------------------------------------ configuration
\* maxMessagesPerBatch ranges up to the number of records the buffer can hold
\* within the bounds: larger values all take the whole buffer.
DefaultConfig ==
    [batchEnabled |-> TRUE, maxMessagesPerBatch |-> 1,
     autoReconnect |-> TRUE, maxReconnectAttempts |-> 1,
     enableRateLimiting |-> TRUE, enableHumanLikeBehavior |-> TRUE,
     maxActivityPerHour |-> 1]

IngestConfigs ==
    {[DefaultConfig EXCEPT !.batchEnabled = b, !.maxMessagesPerBatch = m] :
        b \in BOOLEAN, m \in 1..MaxEvents}

ConnConfigs ==
    {[DefaultConfig EXCEPT !.autoReconnect = a, !.maxReconnectAttempts = m] :
        a \in BOOLEAN, m \in 1..MaxReconnectCfg}

ThrottleConfigs ==
    {[DefaultConfig EXCEPT !.enableRateLimiting = r,
                           !.enableHumanLikeBehavior = h,
                           !.maxActivityPerHour = m] :
        r \in BOOLEAN, h \in BOOLEAN, m \in 1..MaxCeilingCfg}

\* ---------------------------------------------------------------- registry
\* this.monitoredGroups.has(name)
IsMonitored(name) == name \in Range(monitoredGroups)

\* saveMonitoredGroups: the whole set rewritten, every entry stamped with the
\* time of the write; a write that throws is caught and leaves the file alone.
SavedGroups(groups) ==
    [i \in 1..Len(groups) |-> [name |-> groups[i], addedAt |-> now]]

saveMonitoredGroups(groups, writeOk) ==
    /\ groupsFile' = IF writeOk THEN SavedGroups(groups) ELSE groupsFile
    /\ fileState' = IF writeOk THEN "ok" ELSE fileState

addMonitoredGroup(groupName, writeOk) ==
    /\ IF ~IsMonitored(groupName)
       THEN /\ nRegistryOps < MaxRegistryOps
            /\ nRegistryOps' = nRegistryOps + 1
            /\ ~writeOk => nFaults < MaxFaults
            /\ nFaults' = IF writeOk THEN nFaults ELSE nFaults + 1
            /\ monitoredGroups' = Append(monitoredGroups, groupName)
            /\ saveMonitoredGroups(monitoredGroups', writeOk)
            /\ lastCall' = [op |-> "add", name |-> groupName, result |-> TRUE]
       ELSE /\ writeOk
            /\ lastCall' = [op |-> "add", name |-> groupName, result |-> FALSE]
            /\ UNCHANGED <<monitoredGroups, groupsFile, fileState, nRegistryOps,
                           nFaults>>
    /\ UNCHANGED <<connVars, throttleVars, config, notifyVars, now, bufferVars, lifeVars, dbVars>>

removeMonitoredGroup(groupName, writeOk) ==
    /\ IF IsMonitored(groupName)
       THEN /\ nRegistryOps < MaxRegistryOps
            /\ nRegistryOps' = nRegistryOps + 1
            /\ ~writeOk => nFaults < MaxFaults
            /\ nFaults' = IF writeOk THEN nFaults ELSE nFaults + 1
            /\ monitoredGroups' = RemoveFromSeq(monitoredGroups, groupName)
            /\ saveMonitoredGroups(monitoredGroups', writeOk)
            /\ lastCall' = [op |-> "remove", name |-> groupName,
                            result |-> TRUE]
       ELSE /\ writeOk
            /\ lastCall' = [op |-> "remove", name |-> groupName,
                            result |-> FALSE]
            /\ UNCHANGED <<monitoredGroups, groupsFile, fileState, nRegistryOps,
                           nFaults>>
    /\ UNCHANGED <<connVars, throttleVars, config, notifyVars, now, bufferVars, lifeVars, dbVars>>

\* Set.prototype.add on a set kept in insertion order.
AddToSet(groups, name) ==
    IF name \in Range(groups) THEN groups ELSE Append(groups, name)

\* The entries a side-store file may hold: a group object, an object without
\* a name, and a JSON null.
FileEntries ==
    {[name |-> g, addedAt |-> 0] : g \in GroupNames}
        \cup {[addedAt |-> 0], [null |-> TRUE]}

\* groupsData.forEach(group => { if (group.name) this.monitoredGroups.add(...) })
\* from entry i on: reading .name of null throws and ends the loop.
RECURSIVE LoadEntries(_, _, _)
LoadEntries(entries, i, groups) ==
    IF i > Len(entries) THEN groups
    ELSE IF "null" \in DOMAIN entries[i] THEN groups
    ELSE IF "name" \in DOMAIN entries[i]
    THEN LoadEntries(entries, i + 1, AddToSet(groups, entries[i].name))
    ELSE LoadEntries(entries, i + 1, groups)

\* loadMonitoredGroups(): a missing file is skipped; a read or parse error,
\* or a parsed value without forEach, is caught before any entry is seen.
loadMonitoredGroups ==
    /\ lastCall.op = "none"
    /\ lastCall' = [op |-> "load", name |-> "", result |-> FALSE]
    /\ monitoredGroups' = IF fileState = "ok"
                          THEN LoadEntries(groupsFile, 1, monitoredGroups)
                          ELSE monitoredGroups
    /\ UNCHANGED <<connVars, throttleVars, config, notifyVars, now, bufferVars, lifeVars,
                   dbVars, nFaults, groupsFile, fileState, nRegistryOps>>

\* ------------------------------------------------------------ message store
\* A lookup that ignores its parameter: any stored row counts as a match.
LookupWithoutWhere(rows, waMessageId) == rows

\* getMessageByWhatsAppId: SELECT * FROM messages WHERE wa_message_id = ?
getMessageByWhatsAppId(rows, waMessageId) ==
    {r \in rows : r.wa_message_id = waMessageId}

MessageRow(rowid, message) ==
    [id |-> rowid, wa_message_id |-> message.waMessageId,
     chat_name |-> message.chatName, content |-> message.content]

\* A table without the UNIQUE constraint on wa_message_id: every insert adds
\* a row.
InsertWithoutUnique(rows, rowid, message) ==
    rows \cup {MessageRow(rowid, message)}

\* storeMessage: INSERT OR REPLACE INTO messages, wa_message_id TEXT UNIQUE:
\* the conflicting row is deleted and the new row takes a fresh rowid.
storeMessage(rows, rowid, message) ==
    {r \in rows : r.wa_message_id # message.waMessageId}
        \cup {MessageRow(rowid, message)}

\* ---------------------------------------------------------- processMessage
NewTask(owner, pos, message) ==
    [owner |-> owner, pos |-> pos, msg |-> message, pc |-> "get"]

TaskIds(ts) == {t.msg.waMessageId : t \in ts}

\* A loop that starts the processMessage calls of all remaining records at
\* once, without slicing into groups.
GroupTasksAll(rid, msgs, i) ==
    {NewTask(rid, p, msgs[p]) : p \in (i + 1)..Len(msgs)}

\* The processMessage calls of the group starting at offset i of msgs:
\* messagesToProcess.slice(i, i + concurrencyLimit).
GroupTasks(rid, msgs, i) ==
    {NewTask(rid, p, msgs[p]) : p \in (i + 1)..Min(i + concurrencyLimit, Len(msgs))}

\* The for loop of processBatchMessages from offset i on, given the calls
\* still pending (ts) and the ids lost so far (ls).  Each group's
\* processMessage calls start in one turn: with the database not ready every
\* call returns at once, Promise.all settles in the same turn and the loop
\* goes on; otherwise the calls are suspended in getMessageByWhatsAppId and
\* the run waits.  Past the last group the run ends.
RECURSIVE RunLoop(_, _, _, _, _)
RunLoop(rs, ts, ls, r, i) ==
    IF i >= Len(r.msgs)
    THEN [runs |-> rs \ {rr \in rs : rr.rid = r.rid}, tasks |-> ts, lost |-> ls]
    ELSE IF dbReady
         THEN [runs |-> {rr \in rs : rr.rid # r.rid} \cup {[r EXCEPT !.i = i]},
               tasks |-> ts \cup GroupTasks(r.rid, r.msgs, i),
               lost |-> ls]
         ELSE RunLoop(rs, ts, ls \cup TaskIds(GroupTasks(r.rid, r.msgs, i)),
                      r, i + concurrencyLimit)

\* A processMessage call t has returned, leaving the pending calls ts: when
\* it was the last one of its group, the awaiting batch run resumes in the
\* same turn.
AfterProcessMessage(t, ts, ls) ==
    IF t.owner = 0 \/ \E u \in ts : u.owner = t.owner
    THEN [runs |-> runs, tasks |-> ts, lost |-> ls]
    ELSE LET r == CHOOSE rr \in runs : rr.rid = t.owner
         IN  RunLoop(runs, ts, ls, r, r.i + concurrencyLimit)

\* The lookup settles: an existing row ends the call, otherwise storeMessage
\* is issued.
ProcessMessageLookup(t) ==
    /\ t \in tasks /\ t.pc = "get"
    /\ IF getMessageByWhatsAppId(store, t.msg.waMessageId) # {}
       THEN LET after == AfterProcessMessage(t, tasks \ {t}, lost)
            IN  /\ tasks' = after.tasks
                /\ runs' = after.runs
                /\ lost' = after.lost
       ELSE /\ tasks' = (tasks \ {t}) \cup {[t EXCEPT !.pc = "store"]}
            /\ UNCHANGED <<runs, lost>>
    /\ UNCHANGED <<connVars, throttleVars, config, notifyVars, now, registryVars, pendingMessages, handlers,
                   nEvents, nRuns, accepted, lateAdmitted, lastHandled, lifeVars, dbVars,
                   nFaults>>

\* The insert executes.
ProcessMessageStore(t) ==
    /\ t \in tasks /\ t.pc = "store"
    /\ store' = storeMessage(store, nextRowId, t.msg)
    /\ nextRowId' = nextRowId + 1
    /\ LET after == AfterProcessMessage(t, tasks \ {t}, lost)
       IN  /\ tasks' = after.tasks
           /\ runs' = after.runs
           /\ lost' = after.lost
    /\ UNCHANGED <<connVars, throttleVars, config, notifyVars, now, registryVars, pendingMessages, handlers,
                   nEvents, nRuns, accepted, lateAdmitted, lastHandled, lifeVars, dbReady,
                   nFaults>>

\* A processMessage that puts the record it failed to persist back into the
\* buffer.
ProcessMessageThrowsRequeue(t) ==
    /\ t \in tasks
    /\ nFaults < MaxFaults
    /\ nFaults' = nFaults + 1
    /\ pendingMessages' = Append(pendingMessages, t.msg)
    /\ LET after == AfterProcessMessage(t, tasks \ {t}, lost)
       IN  /\ tasks' = after.tasks
           /\ runs' = after.runs
           /\ lost' = after.lost
    /\ UNCHANGED <<connVars, throttleVars, config, notifyVars, now, registryVars, handlers,
                   nEvents, nRuns, accepted, lateAdmitted, lastHandled, lifeVars, dbVars>>

\* The pending database call rejects: caught and logged by processMessage.
ProcessMessageThrows(t) ==
    /\ t \in tasks
    /\ nFaults < MaxFaults
    /\ nFaults' = nFaults + 1
    /\ LET after == AfterProcessMessage(t, tasks \ {t}, lost \cup {t.msg.waMessageId})
       IN  /\ tasks' = after.tasks
           /\ runs' = after.runs
           /\ lost' = after.lost
    /\ UNCHANGED <<connVars, throttleVars, config, notifyVars, now, registryVars, pendingMessages, handlers,
                   nEvents, nRuns, accepted, lateAdmitted, lastHandled, lifeVars, dbVars>>

\* databaseService.initialize() completes.
DatabaseInitialize ==
    /\ ~dbReady
    /\ dbReady' = TRUE
    /\ UNCHANGED <<connVars, throttleVars, config, notifyVars, now, registryVars, bufferVars, lifeVars, store,
                   nextRowId, nFaults>>

\* ------------------------------------------------- handleIncomingMessage
\* The normalised record pushed to the buffer.
MessageData(h) ==
    [waMessageId |-> h.id, chatName |-> h.chat,
     content |-> IF h.missing = "body" THEN NoBody ELSE h.body,
     isGroup |-> ChatIsGroup(h.chat)]

\* The synchronous head of handleIncomingMessage: a status notice returns,
\* anything else is suspended in message.getChat(), a call into the page of
\* the client that emitted the event.
HandleIncomingMessage(e) ==
    IF e.isStatus
    THEN UNCHANGED <<handlers, nEvents>>
    ELSE /\ nEvents < MaxEvents
         /\ nEvents' = nEvents + 1
         /\ \E c \in liveClients :
                handlers' = handlers \cup
                    {[hid |-> nEvents + 1, id |-> e.id, chat |-> e.chat,
                      body |-> e.body, missing |-> e.missing, cl |-> c,
                      monitoredOnArrival |-> IsMonitored(e.chat)]}

\* The callback's promise rejects: nothing catches it.
CallbackRejects(e) ==
    /\ lastHandled' = [chat |-> e.chat, hid |-> 0, outcome |-> "raised"]
    /\ UNCHANGED <<handlers, nEvents>>

\* client.on('message', ...): the debug log reads message.from.includes(...)
\* before handleIncomingMessage is called.
OnMessage(e) ==
    /\ liveClients # {}
    /\ IF e.missing = "from"
       THEN CallbackRejects(e)
       ELSE HandleIncomingMessage(e) /\ UNCHANGED lastHandled
    /\ UNCHANGED <<connVars, throttleVars, config, notifyVars, now, registryVars,
                   pendingMessages, tasks, runs, nRuns, accepted, lost,
                   lateAdmitted, lifeVars, dbVars, nFaults>>

\* client.on('message_create', ...): only the user's own messages go on, after
\* a log line that reads message.body.substring(...).
OnMessageCreate(e) ==
    /\ liveClients # {}
    /\ IF e.missing = "from"
       THEN CallbackRejects(e)
       ELSE IF e.fromMe
            THEN IF e.missing = "body"
                 THEN CallbackRejects(e)
                 ELSE HandleIncomingMessage(e) /\ UNCHANGED lastHandled
            ELSE UNCHANGED <<handlers, nEvents, lastHandled>>
    /\ UNCHANGED <<connVars, throttleVars, config, notifyVars, now, registryVars,
                   pendingMessages, tasks, runs, nRuns, accepted, lost,
                   lateAdmitted, lifeVars, dbVars, nFaults>>

\* A filter that lets every group chat through.
PassesFilterAnyGroup(h) == ChatIsGroup(h.chat)

\* A filter that does not ask whether the chat is a group.
PassesFilterAnyChat(h) == IsMonitored(h.chat)

\* The monitoring filter applied once the chat is known.
PassesFilter(h) == ChatIsGroup(h.chat) /\ IsMonitored(h.chat)

\* getChat() resolved (the client's page is still open): filter, normalise, push, and with batching disabled
\* call processMessage at once.  A missing message._data throws while the
\* record is built; a missing message.body throws in the log line after the
\* push; both are caught and logged.
HandlerChatResolved(h) ==
    /\ h \in handlers
    /\ h.cl \in liveClients
    /\ handlers' = handlers \ {h}
    /\ IF ~PassesFilter(h)
       THEN /\ lastHandled' = [chat |-> h.chat, hid |-> h.hid, outcome |-> "dropped"]
            /\ UNCHANGED <<pendingMessages, accepted, lateAdmitted, tasks,
                           lost>>
       ELSE IF h.missing = "data"
       THEN /\ lastHandled' = [chat |-> h.chat, hid |-> h.hid, outcome |-> "caught"]
            /\ UNCHANGED <<pendingMessages, accepted, lateAdmitted, tasks,
                           lost>>
       ELSE /\ pendingMessages' = Append(pendingMessages, MessageData(h))
            /\ accepted' = accepted \cup {h.id}
            /\ lateAdmitted' = IF h.monitoredOnArrival
                               THEN lateAdmitted
                               ELSE lateAdmitted \cup {h.id}
            /\ IF h.missing = "body"
               THEN /\ lastHandled' = [chat |-> h.chat, hid |-> h.hid, outcome |-> "caught"]
                    /\ UNCHANGED <<tasks, lost>>
               ELSE /\ lastHandled' = [chat |-> h.chat, hid |-> h.hid, outcome |-> "pushed"]
                    /\ IF ~config.batchEnabled
                       THEN IF dbReady
                            THEN /\ tasks' = tasks \cup
                                        {NewTask(0, h.hid, MessageData(h))}
                                 /\ lost' = lost
                            ELSE /\ tasks' = tasks
                                 /\ lost' = lost \cup {h.id}
                       ELSE UNCHANGED <<tasks, lost>>
    /\ UNCHANGED <<connVars, throttleVars, config, notifyVars, now, registryVars, runs,
                   nEvents, nRuns, lifeVars, dbVars, nFaults>>

\* getChat() rejected: the error is caught and logged, nothing is pushed.
HandlerThrows(h) ==
    /\ h \in handlers
    /\ handlers' = handlers \ {h}
    /\ lastHandled' = [chat |-> h.chat, hid |-> h.hid, outcome |-> "caught"]
    /\ UNCHANGED <<connVars, throttleVars, config, notifyVars, now, registryVars,
                   pendingMessages, tasks, runs, nEvents, nRuns, accepted,
                   lost, lateAdmitted, lifeVars, dbVars, nFaults>>

\* ---------------------------------------------------- processBatchMessages
\* Number of records taken by pendingMessages.splice(0, maxMessagesPerBatch).
SpliceAll(len, max) == len

SpliceCount(len, max) == Min(len, max)

\* A cycle that copies the front of the buffer for its run and leaves the
\* buffer as it is.
BatchCycleCopies ==
    /\ batchJobs > 0
    /\ Len(pendingMessages) > 0
    /\ LET k == SpliceCount(Len(pendingMessages), config.maxMessagesPerBatch)
           r == [rid |-> nRuns + 1, msgs |-> SubSeq(pendingMessages, 1, k),
                 i |-> 0]
           after == RunLoop(runs, tasks, lost, r, 0)
       IN  /\ nRuns' = nRuns + 1
           /\ runs' = after.runs
           /\ tasks' = after.tasks
           /\ lost' = after.lost
    /\ UNCHANGED <<connVars, throttleVars, config, notifyVars, now,
                   registryVars, pendingMessages, handlers, nEvents, accepted,
                   lateAdmitted, lastHandled, lifeVars, dbVars, nFaults>>

\* The cron job fires: an empty buffer returns, otherwise the front of the
\* buffer is spliced off and the loop over the groups starts.
BatchCycle ==
    /\ batchJobs > 0
    /\ IF Len(pendingMessages) = 0
       THEN UNCHANGED <<pendingMessages, runs, tasks, lost, nRuns>>
       ELSE LET k == SpliceCount(Len(pendingMessages), config.maxMessagesPerBatch)
                messagesToProcess == SubSeq(pendingMessages, 1, k)
                r == [rid |-> nRuns + 1, msgs |-> messagesToProcess, i |-> 0]
                after == RunLoop(runs, tasks, lost, r, 0)
            IN  /\ nRuns' = nRuns + 1
                /\ pendingMessages' =
                       SubSeq(pendingMessages, k + 1, Len(pendingMessages))
                /\ runs' = after.runs
                /\ tasks' = after.tasks
                /\ lost' = after.lost
    /\ UNCHANGED <<connVars, throttleVars, config, notifyVars, now, registryVars, handlers, nEvents, accepted,
                   lateAdmitted, lastHandled, lifeVars, dbVars, nFaults>>

\* ------------------------------------------------------------ reconnection
\* An exhaustion test that allows one attempt too many.
AttemptsExhaustedOffByOne(attempts, max) == attempts > max

\* if (this.reconnectAttempts >= this.maxReconnectAttempts)
AttemptsExhausted(attempts, max) == attempts >= max

\* A delay that does not grow with the attempt number.
ReconnectDelayConstant(attempts) == reconnectInterval

\* const delay = this.reconnectInterval * this.reconnectAttempts
ReconnectDelay(attempts) == reconnectInterval * attempts

\* scheduleReconnect(), called with `status` the latest status sent so far:
\* past the maximum it only reports, otherwise it counts the attempt and arms
\* a timer.  A pending timer is known by its delay.
scheduleReconnect(status) ==
    IF AttemptsExhausted(reconnectAttempts, config.maxReconnectAttempts)
    THEN /\ lastStatus' = "max_attempts_reached"
         /\ exhaustedReported' = TRUE
         /\ UNCHANGED <<reconnectAttempts, timers, delays>>
    ELSE /\ reconnectAttempts' = reconnectAttempts + 1
         /\ timers' = timers (+) SetToBag({ReconnectDelay(reconnectAttempts + 1)})
         /\ delays' = Append(delays, ReconnectDelay(reconnectAttempts + 1))
         /\ lastStatus' = status
         /\ UNCHANGED exhaustedReported

\* client.on('qr')
OnQr(c) ==
    /\ c \in liveClients
    /\ nConnEvents < MaxConnEvents
    /\ nConnEvents' = nConnEvents + 1
    /\ lastStatus' = "qr"
    /\ UNCHANGED <<config, notifyVars, now, ingestVars, lifeVars, throttleVars, client,
                   liveClients, nClients, isConnected, isAuthenticated,
                   reconnectAttempts, timers, reconnects, readyWaits,
                   nDisconnects, nReadies, reconnectsSinceReady,
                   disconnectsSinceReady, succeededSinceReady, delays,
                   exhaustedReported>>

\* client.on('ready'), up to its 10 s wait.
OnReady(c) ==
    /\ c \in liveClients
    /\ nConnEvents < MaxConnEvents
    /\ nConnEvents' = nConnEvents + 1
    /\ nReadies' = nReadies + 1
    /\ isConnected' = TRUE
    /\ isAuthenticated' = TRUE
    /\ reconnectAttempts' = 0
    /\ lastStatus' = "waiting_for_load"
    /\ readyWaits' = readyWaits + 1
    /\ reconnectsSinceReady' = 0
    /\ disconnectsSinceReady' = 0
    /\ succeededSinceReady' = 0
    /\ delays' = <<>>
    /\ exhaustedReported' = FALSE
    /\ UNCHANGED <<config, notifyVars, now, ingestVars, lifeVars, throttleVars, client,
                   liveClients, nClients, timers, reconnects, nDisconnects>>

\* The 10 s wait of a 'ready' handler is over.
OnReadyLoaded ==
    /\ readyWaits > 0
    /\ readyWaits' = readyWaits - 1
    /\ lastStatus' = "fully_loaded"
    /\ UNCHANGED <<config, notifyVars, now, ingestVars, lifeVars, throttleVars, client,
                   liveClients, nClients, isConnected, isAuthenticated,
                   reconnectAttempts, timers, reconnects, nConnEvents,
                   nDisconnects, nReadies, reconnectsSinceReady,
                   disconnectsSinceReady, succeededSinceReady, delays,
                   exhaustedReported>>

\* client.on('authenticated')
OnAuthenticated(c) ==
    /\ c \in liveClients
    /\ nConnEvents < MaxConnEvents
    /\ nConnEvents' = nConnEvents + 1
    /\ isAuthenticated' = TRUE
    /\ lastStatus' = "authenticated"
    /\ UNCHANGED <<config, notifyVars, now, ingestVars, lifeVars, throttleVars, client,
                   liveClients, nClients, isConnected, reconnectAttempts,
                   timers, reconnects, readyWaits, nDisconnects, nReadies,
                   reconnectsSinceReady, disconnectsSinceReady,
                   succeededSinceReady, delays, exhaustedReported>>

\* client.on('auth_failure')
OnAuthFailure(c) ==
    /\ c \in liveClients
    /\ nConnEvents < MaxConnEvents
    /\ nConnEvents' = nConnEvents + 1
    /\ isAuthenticated' = FALSE
    /\ lastStatus' = "auth_failure"
    /\ UNCHANGED <<config, notifyVars, now, ingestVars, lifeVars, throttleVars, client,
                   liveClients, nClients, isConnected, reconnectAttempts,
                   timers, reconnects, readyWaits, nDisconnects, nReadies,
                   reconnectsSinceReady, disconnectsSinceReady,
                   succeededSinceReady, delays, exhaustedReported>>

\* client.on('disconnected')
OnDisconnected(c) ==
    /\ c \in liveClients
    /\ nConnEvents < MaxConnEvents
    /\ nConnEvents' = nConnEvents + 1
    /\ nDisconnects' = nDisconnects + 1
    /\ disconnectsSinceReady' = disconnectsSinceReady + 1
    /\ isConnected' = FALSE
    /\ IF config.autoReconnect
       THEN scheduleReconnect("disconnected")
       ELSE /\ lastStatus' = "disconnected"
            /\ UNCHANGED <<reconnectAttempts, timers, delays,
                           exhaustedReported>>
    /\ UNCHANGED <<config, notifyVars, now, ingestVars, lifeVars, throttleVars, client,
                   liveClients, nClients, isAuthenticated, reconnects,
                   readyWaits, nReadies, reconnectsSinceReady,
                   succeededSinceReady>>

\* client.on('error')
OnError(c) ==
    /\ c \in liveClients
    /\ nConnEvents < MaxConnEvents
    /\ nConnEvents' = nConnEvents + 1
    /\ lastStatus' = "client_error"
    /\ UNCHANGED <<config, notifyVars, now, ingestVars, lifeVars, throttleVars, client,
                   liveClients, nClients, isConnected, isAuthenticated,
                   reconnectAttempts, timers, reconnects, readyWaits,
                   nDisconnects, nReadies, reconnectsSinceReady,
                   disconnectsSinceReady, succeededSinceReady, delays,
                   exhaustedReported>>

\* A reconnect timer fires: reconnect() reports, then awaits
\* this.client.destroy() (or, with no client, initialize()'s browser launch).
\* A running reconnect() is known by where it waits and the client it took
\* from this.client.
ReconnectTimerFires(delay) ==
    /\ BagIn(delay, timers)
    /\ timers' = timers (-) SetToBag({delay})
    /\ reconnectsSinceReady' = reconnectsSinceReady + 1
    /\ lastStatus' = "attempting_reconnect"
    /\ reconnects' = reconnects (+)
           SetToBag({[pc |-> IF client # 0 THEN "destroy" ELSE "launch",
                      cl |-> client]})
    /\ UNCHANGED <<config, notifyVars, now, ingestVars, lifeVars, throttleVars, client,
                   liveClients, nClients, isConnected, isAuthenticated,
                   reconnectAttempts, readyWaits, nConnEvents, nDisconnects,
                   nReadies, disconnectsSinceReady, succeededSinceReady,
                   delays, exhaustedReported>>

\* client.destroy() resolved: initialize() runs up to puppeteer.launch().
ReconnectDestroyed(r) ==
    /\ BagIn(r, reconnects) /\ r.pc = "destroy"
    /\ liveClients' = liveClients \ {r.cl}
    /\ reconnects' = (reconnects (-) SetToBag({r})) (+)
           SetToBag({[r EXCEPT !.pc = "launch"]})
    /\ UNCHANGED <<config, notifyVars, now, ingestVars, lifeVars, throttleVars, client,
                   nClients, isConnected, isAuthenticated, reconnectAttempts,
                   timers, readyWaits, lastStatus, nConnEvents, nDisconnects,
                   nReadies, reconnectsSinceReady, disconnectsSinceReady,
                   succeededSinceReady, delays, exhaustedReported>>

\* puppeteer.launch() resolved: initialize() creates the Client, registers
\* the event handlers and starts batch processing; reconnect() then awaits
\* this.client.initialize().
ReconnectLaunched(r) ==
    /\ BagIn(r, reconnects) /\ r.pc = "launch"
    /\ nClients' = nClients + 1
    /\ client' = nClients + 1
    /\ liveClients' = liveClients \cup {nClients + 1}
    /\ batchJobs' = IF config.batchEnabled THEN batchJobs + 1 ELSE batchJobs
    /\ batchJob' = IF config.batchEnabled THEN "running" ELSE batchJob
    /\ UNCHANGED stopCall
    /\ reconnects' = (reconnects (-) SetToBag({r})) (+)
           SetToBag({[r EXCEPT !.pc = "clientInit", !.cl = nClients + 1]})
    /\ UNCHANGED <<config, notifyVars, now, ingestVars, throttleVars, isConnected,
                   isAuthenticated, reconnectAttempts, timers, readyWaits,
                   lastStatus, nConnEvents, nDisconnects, nReadies,
                   reconnectsSinceReady, disconnectsSinceReady,
                   succeededSinceReady, delays, exhaustedReported>>

\* this.client.initialize() resolved: reconnect() returns.
ReconnectInitialized(r) ==
    /\ BagIn(r, reconnects) /\ r.pc = "clientInit"
    /\ reconnects' = reconnects (-) SetToBag({r})
    /\ succeededSinceReady' = succeededSinceReady + 1
    /\ UNCHANGED <<config, notifyVars, now, ingestVars, lifeVars, throttleVars, client,
                   liveClients, nClients, isConnected, isAuthenticated,
                   reconnectAttempts, timers, readyWaits, lastStatus,
                   nConnEvents, nDisconnects, nReadies, reconnectsSinceReady,
                   disconnectsSinceReady, delays, exhaustedReported>>

\* The call reconnect() is awaiting rejects: reconnect() rethrows and the
\* timer callback's catch calls scheduleReconnect().
ReconnectFails(r) ==
    /\ BagIn(r, reconnects)
    /\ reconnects' = reconnects (-) SetToBag({r})
    /\ scheduleReconnect(lastStatus)
    /\ UNCHANGED <<config, notifyVars, now, ingestVars, lifeVars, throttleVars, client,
                   liveClients, nClients, isConnected, isAuthenticated,
                   readyWaits, nConnEvents, nDisconnects, nReadies,
                   reconnectsSinceReady, disconnectsSinceReady,
                   succeededSinceReady>>

\* ---------------------------------------------------------- safety throttle
\* Advances of the clock, in ms.
TickSteps == {30000, 3600000}

\* Values of Math.random() * this.randomDelayMax, in ms.
RandomDelays == {d \in {0, 1000} : d < randomDelayMax}

\* A ceiling test that lets one call too many through.
CeilingReachedOffByOne(count, max) == count > max

\* this.activityCount >= this.maxActivityPerHour
CeilingReached(count, max) == count >= max

\* timeSinceLastActivity > 3600000
HourPassed(timeSinceLastActivity) == timeSinceLastActivity > oneHour

\* timeSinceLastActivity < this.minDelayBetweenActions
TooSoon(timeSinceLastActivity) == timeSinceLastActivity < minDelayBetweenActions

\* A call suspended in this.delay(ms): where it waits, the
\* timeSinceLastActivity it computed on entry, and when its timeout is due.
SuspendedCall(pc, timeSinceLastActivity, ms) ==
    [pc |-> pc, tsla |-> timeSinceLastActivity, wake |-> now + ms]

\* A safetyCheck() that gives up instead of waiting or returning.
SafetyCheckRejects(from, timeSinceLastActivity, count, rest) ==
    /\ calls' = rest
    /\ activityCount' = count
    /\ UNCHANGED <<lastActivityTime, nCompleted>>

\* safetyCheck() from the end of stage `from` ("ceiling", "spacing" or
\* "jitter") to its next this.delay() or to its return; `count` is
\* this.activityCount as the call has left it, `rest` the other suspended
\* calls.
SafetyCheckProceed(from, timeSinceLastActivity, count, rest) ==
    IF from = "ceiling" /\ config.enableRateLimiting
          /\ TooSoon(timeSinceLastActivity)
    THEN /\ calls' = rest (+) SetToBag({SuspendedCall("spacing",
                 timeSinceLastActivity,
                 minDelayBetweenActions - timeSinceLastActivity)})
         /\ activityCount' = count
         /\ UNCHANGED <<lastActivityTime, nCompleted>>
    ELSE IF from # "jitter" /\ config.enableHumanLikeBehavior
    THEN /\ \E randomDelay \in RandomDelays :
             calls' = rest (+) SetToBag({SuspendedCall("jitter",
                 timeSinceLastActivity, randomDelay)})
         /\ activityCount' = count
         /\ UNCHANGED <<lastActivityTime, nCompleted>>
    ELSE /\ calls' = rest
         /\ lastActivityTime' = now
         /\ activityCount' = count + 1
         /\ nCompleted' = nCompleted + 1

\* A toggle test that never skips the checks.
ChecksNeverDisabled == FALSE

\* if (!this.enableRateLimiting && !this.enableHumanLikeBehavior) return true
ChecksDisabled ==
    ~config.enableRateLimiting /\ ~config.enableHumanLikeBehavior

\* safetyCheck() from its entry to its first this.delay() or to its return.
SafetyCheckStart ==
    /\ IF ChecksDisabled
       THEN /\ nCalls < MaxCalls
            /\ nCalls' = nCalls + 1
            /\ nCompleted' = nCompleted + 1
            /\ UNCHANGED <<lastActivityTime, activityCount, calls, nTicks,
                           lastResetTime>>
       ELSE LET timeSinceLastActivity == now - lastActivityTime
                count == IF HourPassed(timeSinceLastActivity)
                         THEN 0 ELSE activityCount
            IN  /\ nCalls < MaxCalls
                /\ nCalls' = nCalls + 1
                /\ UNCHANGED nTicks
                /\ IF config.enableRateLimiting
                      /\ CeilingReached(count, config.maxActivityPerHour)
                   THEN /\ calls' = calls (+) SetToBag({SuspendedCall(
                               "cooldown", timeSinceLastActivity,
                               cooldownDelay)})
                        /\ activityCount' = count
                        /\ lastResetTime' =
                               IF HourPassed(timeSinceLastActivity)
                               THEN now ELSE lastResetTime
                        /\ UNCHANGED <<lastActivityTime, nCompleted>>
                   ELSE /\ lastResetTime' =
                               IF HourPassed(timeSinceLastActivity)
                               THEN now ELSE lastResetTime
                        /\ SafetyCheckProceed("ceiling",
                               timeSinceLastActivity, count, calls)
    /\ UNCHANGED <<config, notifyVars, now, ingestVars, lifeVars, connVars>>

\* The timeout of the 30 s cooldown fires: the counter is reset and the call
\* goes on.
SafetyCheckCooldownOver(c) ==
    /\ BagIn(c, calls) /\ c.pc = "cooldown"
    /\ now >= c.wake
    /\ lastResetTime' = now
    /\ SafetyCheckProceed("ceiling", c.tsla, 0, calls (-) SetToBag({c}))
    /\ UNCHANGED <<config, notifyVars, now, ingestVars, lifeVars, connVars, nCalls,
                   nTicks>>

\* The timeout of the spacing wait fires.
SafetyCheckSpacingOver(c) ==
    /\ BagIn(c, calls) /\ c.pc = "spacing"
    /\ now >= c.wake
    /\ SafetyCheckProceed("spacing", c.tsla, activityCount,
                          calls (-) SetToBag({c}))
    /\ UNCHANGED <<config, notifyVars, now, ingestVars, lifeVars, connVars, nCalls,
                   nTicks, lastResetTime>>

\* The timeout of the random wait fires.
SafetyCheckJitterOver(c) ==
    /\ BagIn(c, calls) /\ c.pc = "jitter"
    /\ now >= c.wake
    /\ SafetyCheckProceed("jitter", c.tsla, activityCount,
                          calls (-) SetToBag({c}))
    /\ UNCHANGED <<config, notifyVars, now, ingestVars, lifeVars, connVars, nCalls,
                   nTicks, lastResetTime>>

\* Date.now() advances to the time a pending timeout is due.
TickToTimeout(c) ==
    /\ BagIn(c, calls)
    /\ c.wake > now
    /\ nTicks < MaxTicks
    /\ nTicks' = nTicks + 1
    /\ now' = c.wake
    /\ UNCHANGED <<config, notifyVars, ingestVars, lifeVars, connVars, lastActivityTime,
                   activityCount, calls, nCalls, nCompleted, lastResetTime>>

\* Date.now() advances by d, no further than the next timeout due: a
\* timeout fires when it is due.
Tick(d) ==
    /\ nTicks < MaxTicks
    /\ \A c \in BagToSet(calls) : now + d <= c.wake
    /\ nTicks' = nTicks + 1
    /\ now' = now + d
    /\ UNCHANGED <<config, notifyVars, ingestVars, lifeVars, connVars, lastActivityTime,
                   activityCount, calls, nCalls, nCompleted, lastResetTime>>

\* ------------------------------------------------------------ specification
\* The service after main() has initialised it: the registry loaded from the
\* side file (InitLoadedRegistry), the cron job started when batching is
\* enabled.
InitLoadedRegistry ==
    /\ monitoredGroups = <<"ClassGroup">>
    /\ groupsFile = <<[name |-> "ClassGroup", addedAt |-> 0]>>
    /\ fileState = "ok"
    /\ nRegistryOps = 0
    /\ lastCall = [op |-> "none", name |-> "", result |-> FALSE]

InitEngine ==
    /\ now = 0
    /\ pendingMessages = <<>>
    /\ handlers = {}
    /\ tasks = {}
    /\ runs = {}
    /\ batchJobs = IF config.batchEnabled THEN 1 ELSE 0
    /\ batchJob = IF config.batchEnabled THEN "running" ELSE "null"
    /\ stopCall = [pc |-> "idle", cl |-> 0]
    /\ nEvents = 0
    /\ nRuns = 0
    /\ accepted = {}
    /\ lost = {}
    /\ lateAdmitted = {}
    /\ lastHandled = [chat |-> "", hid |-> 0, outcome |-> "none"]
    /\ store = {}
    /\ nextRowId = 1
    /\ nFaults = 0
    /\ client = 1
    /\ liveClients = {1}
    /\ nClients = 1
    /\ isConnected = FALSE
    /\ isAuthenticated = FALSE
    /\ reconnectAttempts = 0
    /\ timers = EmptyBag
    /\ reconnects = EmptyBag
    /\ readyWaits = 0
    /\ lastStatus = "none"
    /\ nConnEvents = 0
    /\ nDisconnects = 0
    /\ nReadies = 0
    /\ reconnectsSinceReady = 0
    /\ disconnectsSinceReady = 0
    /\ succeededSinceReady = 0
    /\ delays = <<>>
    /\ exhaustedReported = FALSE
    /\ lastActivityTime = 0
    /\ activityCount = 0
    /\ calls = EmptyBag
    /\ nCalls = 0
    /\ nTicks = 0
    /\ nCompleted = 0
    /\ lastResetTime = 0
    /\ messageQueue = <<>>
    /\ isProcessing = FALSE
    /\ batch = <<>>
    /\ queuePc = "idle"
    /\ nEntries = 0
    /\ attempted = <<>>
    /\ delivered = {}

InitService == InitLoadedRegistry /\ InitEngine

InitIngest ==
    /\ config \in IngestConfigs
    /\ dbReady = TRUE
    /\ InitService

NextIngest ==
    \/ \E e \in RawEvents : OnMessage(e)
    \/ \E e \in RawEvents : OnMessageCreate(e)
    \/ \E h \in handlers : HandlerChatResolved(h)
    \/ \E h \in handlers : HandlerThrows(h)
    \/ BatchCycle
    \/ \E t \in tasks : ProcessMessageLookup(t)
    \/ \E t \in tasks : ProcessMessageStore(t)
    \/ \E t \in tasks : ProcessMessageThrows(t)

SpecIngest == InitIngest /\ [][NextIngest]_vars

\* The same service with the operator's add/remove commands interleaved.
NextRegistry ==
    \/ \E e \in RawEvents : OnMessage(e)
    \/ \E e \in RawEvents : OnMessageCreate(e)
    \/ \E h \in handlers : HandlerChatResolved(h)
    \/ \E h \in handlers : HandlerThrows(h)
    \/ \E g \in ChatNames, ok \in BOOLEAN : addMonitoredGroup(g, ok)
    \/ \E g \in ChatNames, ok \in BOOLEAN : removeMonitoredGroup(g, ok)

InitRegistry ==
    /\ config = DefaultConfig
    /\ dbReady = TRUE
    /\ InitService

SpecRegistry == InitRegistry /\ [][NextRegistry]_vars

InitConn ==
    /\ config \in ConnConfigs
    /\ dbReady = TRUE
    /\ InitService

NextConn ==
    \/ \E c \in liveClients : OnQr(c)
    \/ \E c \in liveClients : OnAuthenticated(c)
    \/ \E c \in liveClients : OnAuthFailure(c)
    \/ \E c \in liveClients : OnReady(c)
    \/ OnReadyLoaded
    \/ \E c \in liveClients : OnDisconnected(c)
    \/ \E c \in liveClients : OnError(c)
    \/ \E d \in BagToSet(timers) : ReconnectTimerFires(d)
    \/ \E r \in BagToSet(reconnects) : ReconnectDestroyed(r)
    \/ \E r \in BagToSet(reconnects) : ReconnectLaunched(r)
    \/ \E r \in BagToSet(reconnects) : ReconnectInitialized(r)
    \/ \E r \in BagToSet(reconnects) : ReconnectFails(r)

SpecConn == InitConn /\ [][NextConn]_vars

InitThrottle ==
    /\ config \in ThrottleConfigs
    /\ dbReady = TRUE
    /\ InitService

NextThrottle ==
    \/ SafetyCheckStart
    \/ \E c \in BagToSet(calls) : SafetyCheckCooldownOver(c)
    \/ \E c \in BagToSet(calls) : SafetyCheckSpacingOver(c)
    \/ \E c \in BagToSet(calls) : SafetyCheckJitterOver(c)
    \/ \E c \in BagToSet(calls) : TickToTimeout(c)
    \/ \E d \in TickSteps : Tick(d)

SpecThrottle == InitThrottle /\ [][NextThrottle]_vars

\* Timeouts become due and their callbacks run: the event loop does not
\* starve a pending setTimeout.
ThrottleProgress ==
    \E c \in BagToSet(calls) :
        \/ TickToTimeout(c)
        \/ SafetyCheckCooldownOver(c)
        \/ SafetyCheckSpacingOver(c)
        \/ SafetyCheckJitterOver(c)

SpecThrottleFair == SpecThrottle /\ WF_vars(ThrottleProgress)

\* The constructor about to call loadMonitoredGroups(), over the side-store
\* files it may find.
RECURSIVE EntrySeqs(_)
EntrySeqs(n) ==
    IF n = 0 THEN {<<>>}
    ELSE EntrySeqs(n - 1) \cup
         {Append(es, e) : es \in {x \in EntrySeqs(n - 1) : Len(x) = n - 1},
                          e \in FileEntries}

InitLoad ==
    /\ config = DefaultConfig
    /\ dbReady = TRUE
    /\ monitoredGroups = <<>>
    /\ nRegistryOps = 0
    /\ lastCall = [op |-> "none", name |-> "", result |-> FALSE]
    /\ \/ /\ fileState = "ok"
          /\ groupsFile \in EntrySeqs(MaxFileLen)
       \/ /\ fileState \in {"missing", "unreadable", "garbled", "notArray"}
          /\ groupsFile = <<>>
    /\ InitEngine

NextLoad == loadMonitoredGroups

SpecLoad == InitLoad /\ [][NextLoad]_vars

\* ------------------------------------------------------------------ claims
RowsWithId(x) == {r \in store : r.wa_message_id = x}

PendingIds == {pendingMessages[i].waMessageId : i \in 1..Len(pendingMessages)}

\* A record taken by a batch run, or handed to processMessage, that has not
\* finished persisting.
InFlight(x) ==
    \/ \E t \in tasks : t.msg.waMessageId = x
    \/ \E r \in runs :
           \E p \in (r.i + concurrencyLimit + 1)..Len(r.msgs) :
               r.msgs[p].waMessageId = x

\* C1: the messages table never holds more than one row per externalId
\* (wa_message_id), whatever the order of events, batch cycles and
\* concurrent processMessage calls.
C1_OneRecordPerExternalId ==
    \A x \in MsgIds : Cardinality(RowsWithId(x)) <= 1

\* Two inserts have executed and left a single row: both carried the same
\* externalId.
C1_Witness == nextRowId = 3 /\ Cardinality(store) = 1

\* C2 (as claimed): a record is enqueued only for an event whose chat was
\* monitored at the moment the event was delivered to handleIncomingMessage.
C2_DecidedAtArrival == lateAdmitted = {}

\* C2 (amended): membership is decided when getChat() has resolved: the step
\* that resolves a handler appends its record exactly when the chat is a
\* group and is in the registry at that moment, and appends nothing
\* otherwise; no other handler step touches the buffer.
C2_DecidedAtResolution ==
    [][\A h \in handlers :
          h \notin handlers' =>
              \/ /\ ChatIsGroup(h.chat)
                 /\ h.chat \in {monitoredGroups[i] : i \in 1..Len(monitoredGroups)}
                 /\ Len(pendingMessages') = Len(pendingMessages) + 1
                 /\ pendingMessages'[Len(pendingMessages')].waMessageId = h.id
              \/ pendingMessages' = pendingMessages]_vars

\* A record sits in the buffer although its chat was not monitored when its
\* event arrived: the group was added while getChat() was pending.
C2_Witness == lateAdmitted # {} /\ pendingMessages # <<>>

\* C6: a batch cycle that splices the buffer removes exactly its first
\* min(length, maxMessagesPerBatch) records, hands exactly those to the run,
\* and leaves the rest in place and in order.
C6_BatchRemovesFront ==
    [][nRuns' # nRuns =>
          LET n == Len(pendingMessages)
              k == IF n <= config.maxMessagesPerBatch
                   THEN n ELSE config.maxMessagesPerBatch
          IN  /\ pendingMessages' = SubSeq(pendingMessages, k + 1, n)
              /\ \A r \in runs' :
                     r.rid = nRuns' => r.msgs = SubSeq(pendingMessages, 1, k)
              /\ \E r \in runs' : r.rid = nRuns']_vars

\* A run holds a full batch while a record it left behind is still buffered.
C6_Witness ==
    /\ nRuns = 1 /\ nEvents = 2 /\ handlers = {}
    /\ \E r \in runs : Len(r.msgs) = config.maxMessagesPerBatch
    /\ Len(pendingMessages) = 1

\* C7: with batching enabled, every id that passed the monitoring filter is
\* still buffered, or still being persisted, or met a store fault, or is held
\* by exactly one row of the messages table.
C7_AcceptedIsStoredOnce ==
    config.batchEnabled =>
        \A x \in accepted :
            \/ x \in PendingIds
            \/ InFlight(x)
            \/ x \in lost
            \/ Cardinality(RowsWithId(x)) = 1

\* An accepted event has gone through a batch cycle without fault and is
\* held by one row.
C7_Witness ==
    /\ config.batchEnabled
    /\ \E x \in accepted :
           /\ x \notin PendingIds /\ ~InFlight(x) /\ x \notin lost
           /\ Cardinality(RowsWithId(x)) = 1
           /\ \E r \in store : r.wa_message_id = x /\ r.content = "hi"
                                   /\ r.chat_name = "ClassGroup"

\* C3: between two 'ready' events reconnect() is executed at most
\* maxReconnectAttempts times.
C3_ReconnectsBounded == reconnectsSinceReady <= config.maxReconnectAttempts

\* The scenario of C4: auto-reconnect is on, the connection was ready, it was
\* disconnected once, and no reconnect() has returned normally since.
OneDisconnectOnlyFailures ==
    /\ config.autoReconnect
    /\ nReadies >= 1
    /\ nDisconnects = 1
    /\ disconnectsSinceReady = 1
    /\ succeededSinceReady = 0

\* C4: after one disconnect from a ready connection followed only by failing
\* attempts, reconnect() runs exactly maxReconnectAttempts times: never more,
\* the "manual intervention" status is reported exactly when the last of them
\* has failed, and the sequence does not come to rest before that.
C4_ExactlyMaxAttempts ==
    OneDisconnectOnlyFailures =>
        /\ reconnectsSinceReady <= config.maxReconnectAttempts
        /\ exhaustedReported =>
               /\ reconnectsSinceReady = config.maxReconnectAttempts
               /\ timers = EmptyBag /\ reconnects = EmptyBag
        /\ (timers = EmptyBag /\ reconnects = EmptyBag) =>
               /\ exhaustedReported
               /\ reconnectsSinceReady = config.maxReconnectAttempts

C4_Witness ==
    /\ OneDisconnectOnlyFailures
    /\ config.maxReconnectAttempts = 2
    /\ reconnectsSinceReady = 2
    /\ exhaustedReported
    /\ lastStatus = "max_attempts_reached"

CooldownServedAndCounterReset ==
    \A c \in BagToSet(calls) :
        (c.pc = "cooldown" /\ CopiesIn(c, calls') < CopiesIn(c, calls)) =>
            /\ now >= c.wake
            /\ lastResetTime' = now
            /\ \/ activityCount' = 0
               \/ activityCount' = 1 /\ nCompleted' = nCompleted + 1

\* The call entered in this step is suspended for the cooldown.
EntersCooldown ==
    LET c == SuspendedCall("cooldown", now - lastActivityTime, cooldownDelay)
    IN  /\ CopiesIn(c, calls') = CopiesIn(c, calls) + 1
        /\ c.wake = now + cooldownDelay
        /\ nCompleted' = nCompleted

\* C8 as stated: with rate limiting on, a call entered while the counter is
\* at the ceiling is suspended for the 30 s cooldown and resets the counter.
C8_CeilingAlwaysCoolsDown ==
    [][/\ (nCalls' = nCalls + 1 /\ config.enableRateLimiting
             /\ activityCount >= config.maxActivityPerHour) => EntersCooldown
       /\ CooldownServedAndCounterReset]_vars

\* C8 amended: with rate limiting on, a call entered while the counter is at
\* the ceiling, and no later than one hour after the last recorded activity,
\* is suspended for the 30 s cooldown and resets the counter.
C8_CeilingCoolsDownWithinHour ==
    [][/\ (nCalls' = nCalls + 1 /\ config.enableRateLimiting
             /\ activityCount >= config.maxActivityPerHour
             /\ now - lastActivityTime <= oneHour) => EntersCooldown
       /\ CooldownServedAndCounterReset]_vars

C8_Witness ==
    /\ config.enableRateLimiting
    /\ config.maxActivityPerHour = 2
    /\ nCompleted = 3
    /\ activityCount = 1
    /\ lastResetTime >= cooldownDelay
    /\ now < oneHour
    /\ calls = EmptyBag

\* C9: with rate limiting on, a completion of safetyCheck() comes at least
\* minDelayBetweenActions after the completion before it.
C9_CompletionsSpaced ==
    [][(nCompleted' = nCompleted + 1 /\ nCompleted >= 1
          /\ config.enableRateLimiting)
       => now - lastActivityTime >= minDelayBetweenActions]_vars

\* C10: a call entered, with the checks not switched off, more than one hour
\* after the counter was last reset resets the counter, on entry or at the end of the cooldown it enters.
C10_HourlyResetSinceLastReset ==
    [][(nCalls' = nCalls + 1 /\ ~ChecksDisabled
          /\ now - lastResetTime > oneHour)
       => (lastResetTime' = now \/ EntersCooldown)]_vars

\* C11: with rate limiting on, no more than maxActivityPerHour calls complete
\* safetyCheck() within one hour; here the hour that starts at construction.
C11_AtMostCeilingPerHour ==
    (config.enableRateLimiting /\ now < oneHour)
        => nCompleted <= config.maxActivityPerHour

\* C12: safetyCheck() never rejects: every call that was entered is either
\* suspended in a delay or has returned, and every suspended call returns
\* (as long as the clock may still advance).
C12_EveryCallReturns ==
    /\ [](nCalls = nCompleted + BagCardinality(calls))
    /\ (calls # EmptyBag) ~> (calls = EmptyBag \/ nTicks = MaxTicks)

C12_Witness ==
    /\ config.enableRateLimiting /\ config.enableHumanLikeBehavior
    /\ config.maxActivityPerHour = 1
    /\ nCalls = 2 /\ nCompleted = 2
    /\ calls = EmptyBag
    /\ lastResetTime > 0
    /\ nTicks < MaxTicks

\* C13: with both toggles off safetyCheck() returns at once and leaves the
\* counter and the activity time alone; without rate limiting no call waits
\* for the cooldown or the spacing, without human-like behaviour no call
\* waits a random delay.
C13_TogglesIndependent ==
    /\ [][(nCalls' = nCalls + 1 /\ ~config.enableRateLimiting
             /\ ~config.enableHumanLikeBehavior)
          => /\ nCompleted' = nCompleted + 1
             /\ calls' = calls
             /\ activityCount' = activityCount
             /\ lastActivityTime' = lastActivityTime]_vars
    /\ [](\A c \in BagToSet(calls) :
             /\ c.pc \in {"cooldown", "spacing"} => config.enableRateLimiting
             /\ c.pc = "jitter" => config.enableHumanLikeBehavior)

C13_Witness ==
    /\ ~config.enableRateLimiting /\ ~config.enableHumanLikeBehavior
    /\ nCompleted = 2
    /\ now > 0
    /\ activityCount = 0 /\ lastActivityTime = 0

\* C14: a record that is in the store stays in it unchanged, whatever is
\* persisted afterwards.
C14_StoredRecordUnchanged == [][\A row \in store : row \in store']_vars

\* The group names held in the side-store file.
FileNames(file) == {file[i].name : i \in 1..Len(file)}

\* C15: add returns false and changes nothing for a monitored name, otherwise
\* adds the name, persists and returns true; remove returns false and changes
\* nothing for an absent name, otherwise removes it, persists and returns
\* true.
C15_AddRemoveContract ==
    [][registryVars' # registryVars =>
        LET c == lastCall'
            present == IsMonitored(c.name)
            changes == IF c.op = "add" THEN ~present ELSE present
            after == IF c.op = "add"
                     THEN Range(monitoredGroups) \cup {c.name}
                     ELSE Range(monitoredGroups) \ {c.name}
        IN  IF changes
            THEN /\ c.result
                 /\ Range(monitoredGroups') = after
                 /\ FileNames(groupsFile') = after
            ELSE /\ ~c.result
                 /\ UNCHANGED <<monitoredGroups, groupsFile>>]_vars

\* C16: after an add or remove that returned true the file holds exactly the
\* monitored names.
C16_FileMatchesRegistry ==
    (lastCall.op # "none" /\ lastCall.result)
        => FileNames(groupsFile) = Range(monitoredGroups)

\* The side-store is corrupt: it cannot be read or parsed as an array, or one
\* of its entries is not an object.
CorruptSideStore ==
    \/ fileState # "ok"
    \/ \E i \in 1..Len(groupsFile) : "null" \in DOMAIN groupsFile[i]

\* C17: loadMonitoredGroups() on a missing, unreadable or corrupt side-store
\* leaves the registry empty.
C17_CorruptStoreLoadsEmpty ==
    (lastCall.op = "load" /\ CorruptSideStore) => monitoredGroups = <<>>

\* ------------------------------------------------ status and non-group events
\* The service with a registry an operator may have edited: nothing stops
\* addMonitoredGroup from taking the name of a chat that is not a group.
RegistriesWithNonGroup == {<<"ClassGroup">>, <<"ClassGroup", "Alice">>}

InitFilter ==
    /\ config \in IngestConfigs
    /\ dbReady = TRUE
    /\ monitoredGroups \in RegistriesWithNonGroup
    /\ groupsFile = [i \in 1..Len(monitoredGroups) |->
                        [name |-> monitoredGroups[i], addedAt |-> 0]]
    /\ fileState = "ok"
    /\ nRegistryOps = 0
    /\ lastCall = [op |-> "none", name |-> "", result |-> FALSE]
    /\ InitEngine

SpecFilter == InitFilter /\ [][NextIngest]_vars

\* A record that came from a status notice or from a chat that is not a group.
FromStatusOrNonGroup(id, chat) == id = StatusId \/ ~ChatIsGroup(chat)

\* C18: an event flagged as a status notice, or whose chat is not a group,
\* never changes pendingMessages or the store, whatever the registry holds:
\* the step that finishes handling such an event leaves the buffer, the
\* processMessage calls and the store as they were, and no record of such an
\* event is ever in the buffer, in a processMessage call or in the store.
C18_StatusAndNonGroupDropped ==
    /\ [][\A h \in handlers :
            (h \notin handlers' /\ FromStatusOrNonGroup(h.id, h.chat))
                => UNCHANGED <<pendingMessages, tasks, store>>]_vars
    /\ [](/\ \A i \in 1..Len(pendingMessages) :
                ~FromStatusOrNonGroup(pendingMessages[i].waMessageId,
                                      pendingMessages[i].chatName)
          /\ \A t \in tasks :
                ~FromStatusOrNonGroup(t.msg.waMessageId, t.msg.chatName)
          /\ \A r \in store :
                ~FromStatusOrNonGroup(r.wa_message_id, r.chat_name))

\* An event from the non-group chat Alice, which the registry contains, was
\* handled and dropped; earlier a group message went all the way to the store.
C18_Witness ==
    /\ IsMonitored("Alice")
    /\ lastHandled.chat = "Alice"
    /\ lastHandled.outcome = "dropped"
    /\ pendingMessages = <<>>
    /\ store # {}

\* C19: with batching disabled an accepted event bypasses the buffer: it is
\* not left in pendingMessages, so the buffer stays empty while batching is
\* off.
C19_BufferBypassedWhenBatchingOff ==
    ~config.batchEnabled => pendingMessages = <<>>

\* ------------------------------------------------------------ malformed events
\* The service receiving well-formed and malformed events alike.
NextMalformed ==
    \/ \E e \in RawEvents \cup MalformedEvents : OnMessage(e)
    \/ \E e \in RawEvents \cup MalformedEvents : OnMessageCreate(e)
    \/ \E h \in handlers : HandlerChatResolved(h)
    \/ \E h \in handlers : HandlerThrows(h)
    \/ BatchCycle
    \/ \E t \in tasks : ProcessMessageLookup(t)
    \/ \E t \in tasks : ProcessMessageStore(t)
    \/ \E t \in tasks : ProcessMessageThrows(t)

SpecMalformed == InitIngest /\ [][NextMalformed]_vars

\* C20: a malformed event (its chat cannot be resolved, or a field needed for
\* extraction is missing) is contained: nothing is raised out of the
\* 'message' / 'message_create' callbacks, and the step that finishes
\* handling it with an error leaves pendingMessages and the store unchanged.
C20_MalformedEventContained ==
    /\ [](lastHandled.outcome # "raised")
    /\ [][\A h \in handlers :
            (h \notin handlers' /\ lastHandled'.outcome = "caught")
                => UNCHANGED <<pendingMessages, store>>]_vars

\* ------------------------------------------------------- persistence failures
\* C21: when persisting one record of a batch fails (the lookup or the insert
\* throws), the failed call alone ends: every other processMessage call of
\* the run goes on, the buffer and the store are left as they were (the
\* record is not put back), and a run stays suspended exactly as long as one
\* of its calls is pending, so it is neither aborted nor left hanging.
C21_FailedRecordDoesNotAbortRun ==
    /\ [][nFaults' # nFaults =>
            /\ \E t \in tasks : tasks' = tasks \ {t}
            /\ UNCHANGED <<pendingMessages, store>>]_vars
    /\ [](/\ \A t \in tasks : t.owner # 0 => \E r \in runs : r.rid = t.owner
          /\ \A r \in runs : \E t \in tasks : t.owner = r.rid)

\* One batch run took two records; persisting one of them failed, the other
\* one is stored, the run is over and the buffer is empty.
C21_Witness ==
    /\ config.batchEnabled
    /\ nRuns = 1
    /\ nFaults = 1
    /\ Cardinality(accepted) = 2
    /\ Cardinality(lost) = 1
    /\ Cardinality(store) = 1
    /\ \A r \in store : r.wa_message_id \notin lost
    /\ tasks = {}
    /\ runs = {}
    /\ pendingMessages = <<>>

\* ------------------------------------------------------------------ shutdown
\* stop(), called by shutdown() on SIGINT / SIGTERM, up to its await: the job
\* held in this.batchJob is stopped, then this.client.destroy() is awaited.
StopBegins ==
    /\ stopCall.pc = "idle"
    /\ IF batchJob = "running"
       THEN /\ batchJobs' = batchJobs - 1
            /\ batchJob' = "stopped"
       ELSE UNCHANGED <<batchJobs, batchJob>>
    /\ IF client # 0
       THEN /\ stopCall' = [pc |-> "destroy", cl |-> client]
            /\ UNCHANGED <<isConnected, isAuthenticated>>
       ELSE /\ stopCall' = [pc |-> "returned", cl |-> 0]
            /\ isConnected' = FALSE
            /\ isAuthenticated' = FALSE
    /\ UNCHANGED <<config, notifyVars, now, ingestVars, throttleVars, client, liveClients,
                   nClients, reconnectAttempts, timers, reconnects,
                   readyWaits, lastStatus, nConnEvents, nDisconnects,
                   nReadies, reconnectsSinceReady, disconnectsSinceReady,
                   succeededSinceReady, delays, exhaustedReported>>

\* The client's destroy() resolved: stop() clears the two flags, logs and
\* returns.
StopDestroyed ==
    /\ stopCall.pc = "destroy"
    /\ liveClients' = liveClients \ {stopCall.cl}
    /\ isConnected' = FALSE
    /\ isAuthenticated' = FALSE
    /\ stopCall' = [stopCall EXCEPT !.pc = "returned"]
    /\ UNCHANGED <<config, notifyVars, now, ingestVars, throttleVars, batchJobs, batchJob,
                   client, nClients, reconnectAttempts, timers, reconnects,
                   readyWaits, lastStatus, nConnEvents, nDisconnects,
                   nReadies, reconnectsSinceReady, disconnectsSinceReady,
                   succeededSinceReady, delays, exhaustedReported>>

\* The client's destroy() rejected: stop() logs the error and returns with
\* the flags as they were.
StopDestroyFails ==
    /\ stopCall.pc = "destroy"
    /\ nFaults < MaxFaults
    /\ nFaults' = nFaults + 1
    /\ stopCall' = [stopCall EXCEPT !.pc = "returned"]
    /\ UNCHANGED <<config, notifyVars, now, registryVars, bufferVars, dbVars,
                   throttleVars, batchJobs, batchJob, connVars>>

\* shutdown() after stop() returned: telegramService.stop() and
\* databaseService.close() are awaited, then process.exit(0) ends every
\* pending callback, timer and job.
ShutdownExits ==
    /\ stopCall.pc = "returned"
    /\ stopCall' = [stopCall EXCEPT !.pc = "exited"]
    /\ batchJobs' = 0
    /\ liveClients' = {}
    /\ timers' = EmptyBag
    /\ reconnects' = EmptyBag
    /\ readyWaits' = 0
    /\ handlers' = {}
    /\ tasks' = {}
    /\ runs' = {}
    /\ calls' = EmptyBag
    /\ UNCHANGED <<config, notifyVars, now, registryVars, pendingMessages, nEvents, nRuns,
                   accepted, lost, lateAdmitted, lastHandled, dbVars, nFaults,
                   batchJob, client, nClients, isConnected, isAuthenticated,
                   reconnectAttempts, lastStatus, nConnEvents, nDisconnects,
                   nReadies, reconnectsSinceReady, disconnectsSinceReady,
                   succeededSinceReady, delays, exhaustedReported,
                   lastActivityTime, activityCount, nCalls, nTicks,
                   nCompleted, lastResetTime>>

\* The running service with disconnects, reconnection and one shutdown.
StopConfigs ==
    {[DefaultConfig EXCEPT !.batchEnabled = b] : b \in BOOLEAN}

\* Messages of the monitored group are enough to see what shutdown does to
\* the pipeline.
StopEvents == {e \in RawEvents : e.chat = "ClassGroup" /\ ~e.fromMe /\ e.body = "hi"}

InitStop ==
    /\ config \in StopConfigs
    /\ dbReady = TRUE
    /\ InitService

NextStop ==
    \/ \E e \in StopEvents : OnMessage(e)
    \/ \E h \in handlers : HandlerChatResolved(h)
    \/ \E h \in handlers : HandlerThrows(h)
    \/ BatchCycle
    \/ \E t \in tasks : ProcessMessageLookup(t)
    \/ \E t \in tasks : ProcessMessageStore(t)
    \/ \E c \in liveClients : OnDisconnected(c)
    \/ \E d \in BagToSet(timers) : ReconnectTimerFires(d)
    \/ \E r \in BagToSet(reconnects) : ReconnectDestroyed(r)
    \/ \E r \in BagToSet(reconnects) : ReconnectLaunched(r)
    \/ \E r \in BagToSet(reconnects) : ReconnectInitialized(r)
    \/ StopBegins
    \/ StopDestroyed
    \/ StopDestroyFails
    \/ ShutdownExits

SpecStop == InitStop /\ [][NextStop]_vars

\* C22: once stop() has returned no new batch cycle starts, whatever happened
\* before the stop; a cycle in flight may finish.
C22_NoCycleAfterStop ==
    [][stopCall.pc \in {"returned", "exited"} => nRuns' = nRuns]_vars

\* C23: once stop() has begun no inbound event is accepted: from then on no
\* record is appended to pendingMessages and none is handed to processMessage
\* by an event handler, handlers that were suspended in chat resolution when
\* teardown began included.
C23_NoEventAcceptedAfterStopBegan ==
    [][stopCall.pc # "idle" =>
          /\ Len(pendingMessages') <= Len(pendingMessages)
          /\ accepted' = accepted
          /\ \A t \in tasks' \ tasks : t.owner # 0]_vars

\* ------------------------------------------------------- growth of the backoff
\* whatsapp.sessionManagement.maxReconnectAttempts as shipped in config.json.
shippedMaxReconnectAttempts == 5

\* The service under the shipped reconnection settings, losing its
\* connection: disconnects, the reconnect timers, and reconnect() calls that
\* succeed or fail.
InitBackoff ==
    /\ config = [DefaultConfig EXCEPT
                    !.maxReconnectAttempts = shippedMaxReconnectAttempts]
    /\ dbReady = TRUE
    /\ InitService

NextBackoff ==
    \/ \E c \in liveClients : OnDisconnected(c)
    \/ \E d \in BagToSet(timers) : ReconnectTimerFires(d)
    \/ \E r \in BagToSet(reconnects) : ReconnectDestroyed(r)
    \/ \E r \in BagToSet(reconnects) : ReconnectLaunched(r)
    \/ \E r \in BagToSet(reconnects) : ReconnectInitialized(r)
    \/ \E r \in BagToSet(reconnects) : ReconnectFails(r)

SpecBackoff == InitBackoff /\ [][NextBackoff]_vars

\* A delay in whole seconds.
Seconds(ms) == ms \div 1000

\* C24: the reconnection delay grows exponentially with the attempt number:
\* each delay is longer than the one before and successive delays stand in a
\* constant ratio (d[i-1] * d[i+1] = d[i] * d[i], in seconds).
C24_ExponentialBackoff ==
    /\ \A i \in 2..Len(delays) : delays[i] > delays[i - 1]
    /\ \A i \in 2..(Len(delays) - 1) :
          Seconds(delays[i - 1]) * Seconds(delays[i + 1])
              = Seconds(delays[i]) * Seconds(delays[i])

\* ------------------------------------------- notifications to the status group
\* TelegramTransport: this.batchSize with no rateLimiting option given.
batchSize == 5

\* processQueue takes the next batch: this.messageQueue.splice(0, batchSize),
\* and sendMessageWithRateLimit is entered for its first entry.
TakeBatch(queue) ==
    [batch |-> SubSeq(queue, 1, Min(Len(queue), batchSize)),
     queue |-> SubSeq(queue, Min(Len(queue), batchSize) + 1, Len(queue))]

\* A component logs an entry that shouldSendToTelegram lets through:
\* queueMessage pushes it and, when no processQueue call is running, starts
\* one, which runs up to the await of the first send.
LogEntry ==
    /\ nEntries < MaxEntries
    /\ nEntries' = nEntries + 1
    /\ LET queued == Append(messageQueue, [n |-> nEntries + 1, kind |-> "log"])
       IN  IF isProcessing
           THEN /\ messageQueue' = queued
                /\ UNCHANGED <<isProcessing, batch, queuePc>>
           ELSE /\ isProcessing' = TRUE
                /\ batch' = TakeBatch(queued).batch
                /\ messageQueue' = TakeBatch(queued).queue
                /\ queuePc' = "sending"
    /\ UNCHANGED <<config, now, ingestVars, lifeVars, connVars, throttleVars,
                   attempted, delivered>>

\* A processQueue that ends after its batch without looking at the queue
\* again.
AfterSendNoRecheck(queue) ==
    IF Len(batch) > 1
    THEN /\ batch' = Tail(batch)
         /\ queuePc' = "sending"
         /\ isProcessing' = TRUE
    ELSE /\ batch' = <<>>
         /\ queuePc' = "idle"
         /\ isProcessing' = FALSE

\* processQueue after the send of the first entry of `batch` has settled,
\* with `queue` the queue as it is then: the next entry of the batch, or the
\* wait before the next batch, or the end of the call.
AfterSend(queue) ==
    IF Len(batch) > 1
    THEN /\ batch' = Tail(batch)
         /\ queuePc' = "sending"
         /\ isProcessing' = TRUE
    ELSE IF Len(queue) > 0
    THEN /\ batch' = <<>>
         /\ queuePc' = "batchWait"
         /\ isProcessing' = TRUE
    ELSE /\ batch' = <<>>
         /\ queuePc' = "idle"
         /\ isProcessing' = FALSE

\* A failed send that ends the processQueue call: the rest of the batch is
\* dropped and the queue is left unattended.
SendFailsAborts ==
    /\ queuePc = "sending"
    /\ nFaults < MaxFaults
    /\ nFaults' = nFaults + 1
    /\ attempted' = Append(attempted, Head(batch))
    /\ batch' = <<>>
    /\ queuePc' = "idle"
    /\ isProcessing' = FALSE
    /\ UNCHANGED <<config, now, registryVars, bufferVars, dbVars, lifeVars,
                   connVars, throttleVars, messageQueue, nEntries, delivered>>

\* bot.sendMessage resolved: the entry is delivered.
SendSucceeds ==
    /\ queuePc = "sending"
    /\ attempted' = Append(attempted, Head(batch))
    /\ delivered' = delivered \cup {Head(batch)}
    /\ AfterSend(messageQueue)
    /\ UNCHANGED <<config, now, ingestVars, lifeVars, connVars, throttleVars,
                   messageQueue, nEntries>>

\* bot.sendMessage rejected: TelegramService.sendStatusUpdate catches the
\* error and logs it with logger.error, an entry that is itself queued for
\* the status group; the send returns normally and processQueue goes on.
SendFails ==
    /\ queuePc = "sending"
    /\ nFaults < MaxFaults
    /\ nFaults' = nFaults + 1
    /\ attempted' = Append(attempted, Head(batch))
    /\ nEntries' = nEntries + 1
    /\ messageQueue' =
           Append(messageQueue, [n |-> nEntries + 1, kind |-> "sendError"])
    /\ AfterSend(messageQueue')
    /\ UNCHANGED <<config, now, registryVars, bufferVars, dbVars, lifeVars,
                   connVars, throttleVars, delivered>>

\* The wait between two batches is over.
BatchWaitOver ==
    /\ queuePc = "batchWait"
    /\ batch' = TakeBatch(messageQueue).batch
    /\ messageQueue' = TakeBatch(messageQueue).queue
    /\ queuePc' = "sending"
    /\ UNCHANGED <<config, now, ingestVars, lifeVars, connVars, throttleVars,
                   isProcessing, nEntries, attempted, delivered>>

\* The service emitting status entries while its connection comes and goes.
NextNotify ==
    \/ LogEntry
    \/ SendSucceeds
    \/ SendFails
    \/ BatchWaitOver
    \/ \E c \in liveClients : OnReady(c)
    \/ \E c \in liveClients : OnDisconnected(c)

QueueProgress == SendSucceeds \/ SendFails \/ BatchWaitOver

SpecNotify == InitRegistry /\ [][NextNotify]_vars

\* The timers of processQueue fire and every send settles.
SpecNotifyFair == SpecNotify /\ WF_vars(QueueProgress)

Entries(q) == {q[i] : i \in 1..Len(q)}

\* C25: a failed delivery is not fatal: the step in which it fails leaves the
\* connection, the buffer and the registry as they were and loses no queued
\* entry; entries are attempted in the order they were queued; a processQueue
\* call is running whenever entries wait; and every queued entry is in the
\* end handed to the bot.
C25_FailedNotificationNotFatal ==
    /\ [][nFaults' # nFaults =>
            /\ UNCHANGED <<connVars, bufferVars, registryVars, dbVars>>
            /\ Entries(messageQueue) \subseteq Entries(messageQueue')
            /\ Entries(batch) \subseteq
                   Entries(batch') \cup Entries(attempted')]_vars
    /\ [](\A i, j \in 1..Len(attempted) : i < j => attempted[i].n < attempted[j].n)
    /\ []((messageQueue # <<>> \/ batch # <<>>) => isProcessing)
    /\ \A k \in 1..(MaxEntries + MaxFaults) :
          (nEntries >= k) ~> (\E i \in 1..Len(attempted) : attempted[i].n = k)

\* The first of three entries could not be delivered; the two queued after
\* it and the error entry the failure produced were delivered.
C25_Witness ==
    /\ nFaults = 1
    /\ Len(attempted) = 4
    /\ attempted[1] \notin delivered
    /\ Cardinality(delivered) = 3
    /\ queuePc = "idle"

\* ------------------------------------------------------- order within a chat
\* C26: records of one chat enter pendingMessages in the order in which their
\* handlers were invoked: a record pushed right after another record of the
\* same chat comes from a handler invoked later.
C26_EnqueuedInArrivalOrder ==
    [][\A h \in handlers :
          (/\ h \notin handlers'
           /\ lastHandled'.outcome = "pushed"
           /\ lastHandled.outcome = "pushed"
           /\ lastHandled.chat = h.chat)
              => lastHandled.hid < h.hid]_vars

\* C27: a record enters pendingMessages at most once: the record appended in
\* a step never carries an id that was appended before.
C27_EntersBufferAtMostOnce ==
    [][Len(pendingMessages') > Len(pendingMessages) =>
          pendingMessages'[Len(pendingMessages')].waMessageId \notin accepted]_vars

\* --------------------------------------------------------- transport errors
\* C28: an 'error' event received while the session is Ready is treated as a
\* disconnect: isConnected becomes false and, with auto-reconnect enabled,
\* the reconnection path of 'disconnected' is taken (an attempt is scheduled,
\* or the exhaustion is reported).
C28_ErrorTreatedAsDisconnect ==
    [][(nConnEvents' # nConnEvents /\ lastStatus' = "client_error"
            /\ isConnected) =>
          /\ ~isConnected'
          /\ config.autoReconnect =>
                \/ reconnectAttempts' = reconnectAttempts + 1
                \/ exhaustedReported']_vars

\* ------------------------------------------------ connection state and status
\* The connection events, reconnection and one shutdown together.
NextLifecycle ==
    \/ \E c \in liveClients : OnQr(c)
    \/ \E c \in liveClients : OnAuthenticated(c)
    \/ \E c \in liveClients : OnAuthFailure(c)
    \/ \E c \in liveClients : OnReady(c)
    \/ OnReadyLoaded
    \/ \E c \in liveClients : OnDisconnected(c)
    \/ \E c \in liveClients : OnError(c)
    \/ \E d \in BagToSet(timers) : ReconnectTimerFires(d)
    \/ \E r \in BagToSet(reconnects) : ReconnectDestroyed(r)
    \/ \E r \in BagToSet(reconnects) : ReconnectLaunched(r)
    \/ \E r \in BagToSet(reconnects) : ReconnectInitialized(r)
    \/ \E r \in BagToSet(reconnects) : ReconnectFails(r)
    \/ StopBegins
    \/ StopDestroyed
    \/ StopDestroyFails
    \/ ShutdownExits

SpecLifecycle == InitRegistry /\ [][NextLifecycle]_vars

\* A step in which sendStatusUpdate is called: the latest status text
\* changes, or a client event is handled (each of the event handlers calls
\* sendStatusUpdate, possibly with the text sent last).
StatusSent == lastStatus' # lastStatus \/ nConnEvents' # nConnEvents

\* C29: every transition of the connection state emits a status notification
\* in the same step: whenever the state that isReady() reports (isConnected,
\* isAuthenticated) changes, sendStatusUpdate is called.
C29_EveryTransitionNotifies ==
    [][<<isConnected, isAuthenticated>>' # <<isConnected, isAuthenticated>>
          => StatusSent]_vars

\* -------------------------------------------------- reset of the attempt counter
\* C30: every 'ready' sets reconnectAttempts to 0 and no other event lowers
\* the counter, so the first disconnect after a 'ready' arms its timer with
\* one base interval and leaves maxReconnectAttempts - 1 further attempts.
C30_ReadyResetsAttempts ==
    /\ [][nReadies' # nReadies => reconnectAttempts' = 0]_vars
    /\ [][reconnectAttempts' < reconnectAttempts => nReadies' # nReadies]_vars
    /\ [][(/\ nDisconnects' # nDisconnects
           /\ nReadies > 0
           /\ disconnectsSinceReady = 0
           /\ config.autoReconnect) =>
              /\ reconnectAttempts' = 1
              /\ timers' = timers (+) SetToBag({reconnectInterval})]_vars

\* ------------------------------------------------------------ one live session
\* C31: at any time at most one client with registered event handlers is
\* alive.
C31_AtMostOneLiveClient == Cardinality(liveClients) <= 1

\* C34: at any time at most one periodic batch task is scheduled.
C34_AtMostOneBatchJob == batchJobs <= 1

\* C35: at most one reconnect timer is pending at any time.
C35_AtMostOneReconnectTimer == BagCardinality(timers) <= 1

\* ------------------------------------------------------- draining and appends
\* The run started in this step, if any.
NewRuns == {r \in runs' : \A q \in runs : q.rid # r.rid}

\* C32: draining is atomic with respect to appends.  An append adds one
\* record at the end of the buffer and touches no run; a cycle that starts a
\* run moves a prefix of the buffer into that run and nothing else (buffer
\* before = the run's records followed by the buffer after); no other step
\* changes the buffer; a run in progress, overlapping runs included, keeps
\* the records it took; and each position of a run is handed to
\* processMessage by at most one call, with the record the run holds there.
C32_DrainAtomicWithAppends ==
    /\ [][Len(pendingMessages') > Len(pendingMessages) =>
            /\ SubSeq(pendingMessages', 1, Len(pendingMessages)) = pendingMessages
            /\ Len(pendingMessages') = Len(pendingMessages) + 1
            /\ runs' = runs]_vars
    /\ [][Len(pendingMessages') < Len(pendingMessages) =>
            /\ Cardinality(NewRuns) = 1
            /\ \A r \in NewRuns : pendingMessages = r.msgs \o pendingMessages']_vars
    /\ [][Len(pendingMessages') = Len(pendingMessages) =>
            /\ pendingMessages' = pendingMessages
            /\ NewRuns = {}]_vars
    /\ [][\A r \in runs' : \A q \in runs : q.rid = r.rid => q.msgs = r.msgs]_vars
    /\ [](\A t \in tasks : t.owner # 0 =>
            /\ \E r \in runs : r.rid = t.owner /\ r.msgs[t.pos] = t.msg
            /\ \A u \in tasks : (u.owner = t.owner /\ u.pos = t.pos) => u = t)

\* A record was appended while the first run was in progress and a second,
\* overlapping run took it: each run holds one record, the buffer is empty.
C32_Witness ==
    /\ config.maxMessagesPerBatch = 2
    /\ pendingMessages = <<>>
    /\ \E r1, r2 \in runs :
          /\ r1.rid = 1 /\ Len(r1.msgs) = 1
          /\ r2.rid = 2 /\ Len(r2.msgs) = 1

\* ------------------------------------------------------ groups within a run
\* A buffer longer than one group.  The service has buffered MaxBuffered
\* records of the monitored group, the shipped maxMessagesPerBatch (100)
\* takes them all in one splice; the last MaxFresh of them are not in the
\* store yet, the others were persisted after an earlier delivery and have
\* been delivered again.
MaxBuffered == 11
MaxFresh == 3
shippedMaxMessagesPerBatch == 100

BufferedRecord(i) ==
    [waMessageId |-> "b" \o ToString(i), chatName |-> "ClassGroup",
     content |-> "hi", isGroup |-> TRUE]

InitGroups ==
    /\ config = [DefaultConfig EXCEPT
                    !.maxMessagesPerBatch = shippedMaxMessagesPerBatch]
    /\ dbReady = TRUE
    /\ InitLoadedRegistry
    /\ now = 0
    /\ pendingMessages = [i \in 1..MaxBuffered |-> BufferedRecord(i)]
    /\ handlers = {}
    /\ tasks = {}
    /\ runs = {}
    /\ batchJobs = 1
    /\ batchJob = "running"
    /\ stopCall = [pc |-> "idle", cl |-> 0]
    /\ nEvents = MaxBuffered
    /\ nRuns = 0
    /\ accepted = {BufferedRecord(i).waMessageId : i \in 1..MaxBuffered}
    /\ lost = {}
    /\ lateAdmitted = {}
    /\ lastHandled = [chat |-> "ClassGroup", hid |-> MaxBuffered,
                      outcome |-> "pushed"]
    /\ store = {MessageRow(i, BufferedRecord(i)) : i \in 1..(MaxBuffered - MaxFresh)}
    /\ nextRowId = MaxBuffered - MaxFresh + 1
    /\ nFaults = 0
    /\ client = 1
    /\ liveClients = {1}
    /\ nClients = 1
    /\ isConnected = TRUE
    /\ isAuthenticated = TRUE
    /\ reconnectAttempts = 0
    /\ timers = EmptyBag
    /\ reconnects = EmptyBag
    /\ readyWaits = 0
    /\ lastStatus = "none"
    /\ nConnEvents = 0
    /\ nDisconnects = 0
    /\ nReadies = 0
    /\ reconnectsSinceReady = 0
    /\ disconnectsSinceReady = 0
    /\ succeededSinceReady = 0
    /\ delays = <<>>
    /\ exhaustedReported = FALSE
    /\ lastActivityTime = 0
    /\ activityCount = 0
    /\ calls = EmptyBag
    /\ nCalls = 0
    /\ nTicks = 0
    /\ nCompleted = 0
    /\ lastResetTime = 0
    /\ messageQueue = <<>>
    /\ isProcessing = FALSE
    /\ batch = <<>>
    /\ queuePc = "idle"
    /\ nEntries = 0
    /\ attempted = <<>>
    /\ delivered = {}

NextGroups ==
    \/ BatchCycle
    \/ \E t \in tasks : ProcessMessageLookup(t)
    \/ \E t \in tasks : ProcessMessageStore(t)
    \/ \E t \in tasks : ProcessMessageThrows(t)

SpecGroups == InitGroups /\ [][NextGroups]_vars

\* The processMessage calls of run r that have not returned.
InFlightOf(r) == {t \in tasks : t.owner = r.rid}

\* C33: within one batch run at most concurrencyLimit processMessage calls
\* are in flight, and they all belong to the run's current group: no call of
\* group k+1 exists while a call of group k has not returned.
C33_GroupsOneAfterAnother ==
    \A r \in runs :
        /\ Cardinality(InFlightOf(r)) <= concurrencyLimit
        /\ \A t \in InFlightOf(r) :
              t.pos \in (r.i + 1)..(r.i + concurrencyLimit)

\* The second group of a run is in flight after the first group finished
\* with one failed record and one stored record.
C33_Witness ==
    /\ nFaults = 1
    /\ \E r \in runs :
          /\ r.i = concurrencyLimit
          /\ Len(r.msgs) > concurrencyLimit
          /\ \E t \in tasks : t.owner = r.rid /\ t.pos = concurrencyLimit + 1
          /\ \E row \in store : row.wa_message_id = r.msgs[concurrencyLimit].waMessageId

\* ------------------------------------------------------ after stop() returned
\* C36: after stop() has completed the connection stays torn down: no
\* reconnect() call starts, no client and no batch job is created and
\* isConnected is false and stays false, a reconnect timer pending at the
\* time of the stop notwithstanding.
C36_StaysTornDownAfterStop ==
    [][stopCall.pc \in {"returned", "exited"} =>
          /\ BagCardinality(reconnects') <= BagCardinality(reconnects)
          /\ nClients' = nClients
          /\ batchJobs' <= batchJobs
          /\ ~isConnected /\ ~isConnected']_vars

\* ------------------------------------------------------- the activity counter
\* C37: with rate limiting enabled activityCount never exceeds
\* maxActivityPerHour, however the safetyCheck() calls interleave.
C37_CounterWithinCeiling ==
    config.enableRateLimiting => activityCount <= config.maxActivityPerHour

\* --------------------------------------------------- the store not yet ready
\* The service receiving events and running batch cycles before
\* databaseService.initialize() has completed.
InitNotReady ==
    /\ config \in IngestConfigs
    /\ dbReady = FALSE
    /\ InitService

NextNotReady ==
    \/ \E e \in StopEvents : OnMessage(e)
    \/ \E h \in handlers : HandlerChatResolved(h)
    \/ \E h \in handlers : HandlerThrows(h)
    \/ BatchCycle
    \/ \E t \in tasks : ProcessMessageLookup(t)
    \/ \E t \in tasks : ProcessMessageStore(t)
    \/ \E t \in tasks : ProcessMessageThrows(t)
    \/ DatabaseInitialize

SpecNotReady == InitNotReady /\ [][NextNotReady]_vars

AllEntries == attempted \o batch \o messageQueue

\* C39: one processQueue loop at a time (the flag is set exactly while the
\* loop is at one of its awaits, and an entry queued meanwhile only joins the
\* queue); every entry is in exactly one place and the places taken together
\* hold the entries 1, 2, ... in the order they were queued, so each is
\* handed to sendStatusUpdate once and in FIFO order; a waiting entry always
\* has a running loop; and in the end the queue is empty, the loop has ended
\* and every entry has been handed over.
C39_QueueDrainsInOrder ==
    /\ [](isProcessing <=> queuePc # "idle")
    /\ [][(nEntries' # nEntries /\ nFaults' = nFaults /\ isProcessing) =>
            /\ batch' = batch /\ queuePc' = queuePc /\ isProcessing'
            /\ attempted' = attempted]_vars
    /\ [](/\ Len(AllEntries) = nEntries
          /\ \A i \in 1..Len(AllEntries) : AllEntries[i].n = i)
    /\ [](messageQueue # <<>> => isProcessing)
    /\ <>[](/\ messageQueue = <<>> /\ batch = <<>> /\ ~isProcessing
            /\ Len(attempted) = nEntries)

\* Two entries were queued while the loop was sending the first: the loop
\* found them after its batch and waits before it takes them.
C39_Witness ==
    /\ queuePc = "batchWait"
    /\ Len(attempted) = 1
    /\ Len(messageQueue) = 2
    /\ nFaults = 0

\* ------------------------------------------------------ addedAt in the side file
\* The registry edited by the operator while time passes.
NextRestamp ==
    \/ \E g \in ChatNames, ok \in BOOLEAN : addMonitoredGroup(g, ok)
    \/ \E g \in ChatNames, ok \in BOOLEAN : removeMonitoredGroup(g, ok)
    \/ \E d \in TickSteps : Tick(d)

SpecRestamp == InitRegistry /\ [][NextRestamp]_vars

\* C40: a group that is in the side file before and after a step has the same
\* addedAt before and after: adding or removing another group does not touch
\* it.
C40_AddedAtIsFixed ==
    [][\A i \in 1..Len(groupsFile) : \A j \in 1..Len(groupsFile') :
          groupsFile[i].name = groupsFile'[j].name
              => groupsFile'[j].addedAt = groupsFile[i].addedAt]_vars

====
